---- MODULE Spec2Model ----
(***************************************************************************)
(* Model of haystack/errors.py: the HaystackError base class, its          *)
(* constructor chain through the fifteen error kinds, the telemetry event  *)
(* each construction sends, attribute lookup with the __getattr__ fallback *)
(* to __cause__, and __str__ / __repr__.                                   *)
(*                                                                         *)
(* Python values are tagged tuples so that None, strings and integers can  *)
(* be compared with one another: None is <<"None">>, the string s is       *)
(* <<"str", s>>, the integer n is <<"int", n>>.  An instance __dict__ and  *)
(* a keyword-argument list are functions from names to values.  A Python   *)
(* dict payload is a set of <<key, value>> pairs.  The outcome of an       *)
(* expression is <<"ok", value>> or <<"raise", exception name>>.           *)
(***************************************************************************)
EXTENDS Integers, Sequences, FiniteSets, TLC

VARIABLES telemetry, constructed, call, cur, last

vars == <<telemetry, constructed, call, cur, last>>

\* Bound on the constructor invocations of one behaviour of Spec.
MaxCalls == 1
\* Bound on the constructor invocations of one behaviour of SpecLog.
MaxLogLen == 2

-----------------------------------------------------------------------------
(* Python values *)

PyNone == <<"None">>
PyStr(s) == <<"str", s>>
PyInt(n) == <<"int", n>>

IsStr(v) == v[1] = "str"

\* Python truthiness of None, str and int values.
Truthy(v) ==
    CASE v[1] = "None" -> FALSE
      [] v[1] = "str" -> v[2] # ""
      [] v[1] = "int" -> v[2] # 0

Ok(v) == <<"ok", v>>
Raise(e) == <<"raise", e>>
IsOk(r) == r[1] = "ok"

EmptyDict == <<>>

\* A keyword argument, or the default of the signature when it is omitted.
Arg(kwargs, name, default) ==
    IF name \in DOMAIN kwargs THEN kwargs[name] ELSE default

-----------------------------------------------------------------------------
(* The error kinds and their constructor signatures *)

Kinds ==
    {"HaystackError", "ModelingError", "PipelineError", "PipelineSchemaError",
     "PipelineConfigError", "DocumentStoreError", "FilterError",
     "PineconeDocumentStoreError", "DuplicateDocumentError", "NodeError",
     "AudioNodeError", "OpenAIError", "OpenAIRateLimitError", "CohereError",
     "ImageToTextError"}

\* The keyword parameters each kind's __init__ accepts besides self.
Params(kind) ==
    CASE kind = "HaystackError" -> {"message", "docs_link", "send_message_in_event"}
      [] kind \in {"ModelingError", "PipelineError", "PipelineConfigError"} ->
            {"message", "docs_link"}
      [] kind \in {"DocumentStoreError", "NodeError", "OpenAIRateLimitError"} ->
            {"message", "send_message_in_event"}
      [] kind \in {"OpenAIError", "CohereError"} ->
            {"message", "status_code", "send_message_in_event"}
      [] OTHER -> {"message"}

ModelingDocs == PyStr("https://haystack.deepset.ai/")
PipelineDocs == PyStr("https://docs.haystack.deepset.ai/docs/pipelines")
PipelineConfigDocs ==
    PyStr("https://docs.haystack.deepset.ai/docs/pipelines#yaml-file-definitions")

RateLimitCode == 429

-----------------------------------------------------------------------------
(* Telemetry *)

\* Variant: the event is named after the base class, not type(self).
EventName_Base(cls) == "HaystackError" \o " raised"

\* f"{type(self).__name__} raised"
EventName(cls) == cls \o " raised"

\* Variant: a falsy message is left out of the payload.
Payload_DropEmpty(message, send_message_in_event) ==
    IF send_message_in_event /\ Truthy(message) THEN {<<"message", message>>} ELSE {}

\* payload = {"message": message} if send_message_in_event else {}
Payload(message, send_message_in_event) ==
    IF send_message_in_event THEN {<<"message", message>>} ELSE {}

\* The outcomes of one send_custom_event call: it returns, or it raises.
EmitOutcomes == {"ok", "raise"}

-----------------------------------------------------------------------------
(* Constructors.  cls is type(self).__name__; kwargs are the keyword        *)
(* arguments of the call; emit is the outcome of send_custom_event.  The    *)
(* result holds the telemetry calls made, the exception that left the       *)
(* constructor ("none" when it returned) and the instance __dict__.         *)

HaystackError__init__(cls, kwargs, emit) ==
    LET message == Arg(kwargs, "message", PyNone)
        docs_link == Arg(kwargs, "docs_link", PyNone)
        send_message_in_event == Arg(kwargs, "send_message_in_event", TRUE)
        payload == Payload(message, send_message_in_event)
        sent == <<[event |-> EventName(cls), payload |-> payload]>>
        d1 == IF Truthy(message) THEN ("message" :> message) ELSE EmptyDict
        d2 == ("docs_link" :> PyNone) @@ d1
    IN  IF emit = "raise"
        THEN [sent |-> sent, raised |-> "TelemetryError", dict |-> EmptyDict]
        ELSE [sent |-> sent, raised |-> "none", dict |-> d2]

ModelingError__init__(cls, kwargs, emit) ==
    LET message == Arg(kwargs, "message", PyNone)
        docs_link == Arg(kwargs, "docs_link", ModelingDocs)
    IN  HaystackError__init__(cls,
            ("message" :> message) @@ ("docs_link" :> docs_link), emit)

PipelineError__init__(cls, kwargs, emit) ==
    LET message == Arg(kwargs, "message", PyNone)
        docs_link == Arg(kwargs, "docs_link", PipelineDocs)
    IN  HaystackError__init__(cls,
            ("message" :> message) @@ ("docs_link" :> docs_link), emit)

PipelineSchemaError__init__(cls, kwargs, emit) ==
    LET message == Arg(kwargs, "message", PyNone)
    IN  PipelineError__init__(cls, ("message" :> message), emit)

PipelineConfigError__init__(cls, kwargs, emit) ==
    LET message == Arg(kwargs, "message", PyNone)
        docs_link == Arg(kwargs, "docs_link", PipelineConfigDocs)
    IN  PipelineError__init__(cls,
            ("message" :> message) @@ ("docs_link" :> docs_link), emit)

\* Variant: send_message_in_event defaults to True as in the base class.
DocumentStoreError__init___Reporting(cls, kwargs, emit) ==
    LET message == Arg(kwargs, "message", PyNone)
        send_message_in_event == Arg(kwargs, "send_message_in_event", TRUE)
    IN  HaystackError__init__(cls,
            ("message" :> message)
                @@ ("send_message_in_event" :> send_message_in_event), emit)

DocumentStoreError__init__(cls, kwargs, emit) ==
    LET message == Arg(kwargs, "message", PyNone)
        send_message_in_event == Arg(kwargs, "send_message_in_event", FALSE)
    IN  HaystackError__init__(cls,
            ("message" :> message)
                @@ ("send_message_in_event" :> send_message_in_event), emit)

FilterError__init__(cls, kwargs, emit) ==
    LET message == Arg(kwargs, "message", PyNone)
    IN  DocumentStoreError__init__(cls, ("message" :> message), emit)

PineconeDocumentStoreError__init__(cls, kwargs, emit) ==
    LET message == Arg(kwargs, "message", PyNone)
    IN  DocumentStoreError__init__(cls, ("message" :> message), emit)

DuplicateDocumentError__init__(cls, kwargs, emit) ==
    LET message == Arg(kwargs, "message", PyNone)
    IN  DocumentStoreError__init__(cls, ("message" :> message), emit)

NodeError__init__(cls, kwargs, emit) ==
    LET message == Arg(kwargs, "message", PyNone)
        send_message_in_event == Arg(kwargs, "send_message_in_event", TRUE)
    IN  HaystackError__init__(cls,
            ("message" :> message)
                @@ ("send_message_in_event" :> send_message_in_event), emit)

AudioNodeError__init__(cls, kwargs, emit) ==
    LET message == Arg(kwargs, "message", PyNone)
    IN  NodeError__init__(cls, ("message" :> message), emit)

OpenAIError__init__(cls, kwargs, emit) ==
    LET message == Arg(kwargs, "message", PyNone)
        status_code == Arg(kwargs, "status_code", PyNone)
        send_message_in_event == Arg(kwargs, "send_message_in_event", FALSE)
        r == NodeError__init__(cls,
                ("message" :> message)
                    @@ ("send_message_in_event" :> send_message_in_event), emit)
    IN  IF r.raised # "none" THEN r
        ELSE [r EXCEPT !.dict = ("status_code" :> status_code) @@ r.dict]

\* Variant: status_code is not passed on to OpenAIError.
OpenAIRateLimitError__init___NoCode(cls, kwargs, emit) ==
    LET message == Arg(kwargs, "message", PyNone)
        send_message_in_event == Arg(kwargs, "send_message_in_event", FALSE)
    IN  OpenAIError__init__(cls,
            ("message" :> message)
                @@ ("send_message_in_event" :> send_message_in_event), emit)

OpenAIRateLimitError__init__(cls, kwargs, emit) ==
    LET message == Arg(kwargs, "message", PyNone)
        send_message_in_event == Arg(kwargs, "send_message_in_event", FALSE)
    IN  OpenAIError__init__(cls,
            ("message" :> message) @@ ("status_code" :> PyInt(RateLimitCode))
                @@ ("send_message_in_event" :> send_message_in_event), emit)

CohereError__init__(cls, kwargs, emit) ==
    LET message == Arg(kwargs, "message", PyNone)
        status_code == Arg(kwargs, "status_code", PyNone)
        send_message_in_event == Arg(kwargs, "send_message_in_event", FALSE)
        r == NodeError__init__(cls,
                ("message" :> message)
                    @@ ("send_message_in_event" :> send_message_in_event), emit)
    IN  IF r.raised # "none" THEN r
        ELSE [r EXCEPT !.dict = ("status_code" :> status_code) @@ r.dict]

ImageToTextError__init__(cls, kwargs, emit) ==
    LET message == Arg(kwargs, "message", PyNone)
    IN  NodeError__init__(cls, ("message" :> message), emit)

\* kind(**kwargs): the __init__ of the concrete class runs with type(self) = kind.
New(kind, kwargs, emit) ==
    CASE kind = "HaystackError" -> HaystackError__init__(kind, kwargs, emit)
      [] kind = "ModelingError" -> ModelingError__init__(kind, kwargs, emit)
      [] kind = "PipelineError" -> PipelineError__init__(kind, kwargs, emit)
      [] kind = "PipelineSchemaError" -> PipelineSchemaError__init__(kind, kwargs, emit)
      [] kind = "PipelineConfigError" -> PipelineConfigError__init__(kind, kwargs, emit)
      [] kind = "DocumentStoreError" -> DocumentStoreError__init__(kind, kwargs, emit)
      [] kind = "FilterError" -> FilterError__init__(kind, kwargs, emit)
      [] kind = "PineconeDocumentStoreError" ->
            PineconeDocumentStoreError__init__(kind, kwargs, emit)
      [] kind = "DuplicateDocumentError" ->
            DuplicateDocumentError__init__(kind, kwargs, emit)
      [] kind = "NodeError" -> NodeError__init__(kind, kwargs, emit)
      [] kind = "AudioNodeError" -> AudioNodeError__init__(kind, kwargs, emit)
      [] kind = "OpenAIError" -> OpenAIError__init__(kind, kwargs, emit)
      [] kind = "OpenAIRateLimitError" -> OpenAIRateLimitError__init__(kind, kwargs, emit)
      [] kind = "CohereError" -> CohereError__init__(kind, kwargs, emit)
      [] kind = "ImageToTextError" -> ImageToTextError__init__(kind, kwargs, emit)

-----------------------------------------------------------------------------
(* Attribute lookup *)

\* getattr(target, attr) on the value of self.__cause__: None has none of the
\* attribute names read here; an exception object answers from its __dict__.
getattr(target, attr) ==
    IF target = PyNone THEN Raise("AttributeError")
    ELSE IF attr \in DOMAIN target[2] THEN Ok(target[2][attr])
    ELSE Raise("AttributeError")

\* HaystackError.__getattr__: the getattr call is evaluated and its value
\* dropped (the method has no return statement), so a successful lookup
\* yields None; a failed one raises out of the method.  fwd lists the
\* values getattr was called on.
__getattr__(self, attr) ==
    LET r == getattr(self.cause, attr)
    IN  [out |-> IF IsOk(r) THEN Ok(PyNone) ELSE r, fwd |-> <<self.cause>>]

\* Variant: the cause is consulted before the instance __dict__.
GetAttribute_CauseFirst(self, attr) ==
    IF self.cause # PyNone /\ attr \in DOMAIN self.cause[2]
    THEN [out |-> Ok(self.cause[2][attr]), fwd |-> <<self.cause>>]
    ELSE IF attr \in DOMAIN self.dict
    THEN [out |-> Ok(self.dict[attr]), fwd |-> <<>>]
    ELSE __getattr__(self, attr)

\* self.attr: the instance __dict__ first; __getattr__ only when that fails.
GetAttribute(self, attr) ==
    IF attr \in DOMAIN self.dict
    THEN [out |-> Ok(self.dict[attr]), fwd |-> <<>>]
    ELSE __getattr__(self, attr)

-----------------------------------------------------------------------------
(* String rendering *)

DocsHint == "\n\nCheck out the documentation at "

\* self.message + docs_message: str + str concatenates, None + str raises.
Concat(m, docs_message) ==
    IF IsStr(m) THEN Ok(PyStr(m[2] \o docs_message)) ELSE Raise("TypeError")

\* Variant: the documentation hint is never appended.
__str___NoHint(self) == GetAttribute(self, "message").out

\* HaystackError.__str__
__str__(self) ==
    LET d == GetAttribute(self, "docs_link").out
        m == GetAttribute(self, "message").out
    IN  IF ~IsOk(d) THEN d
        ELSE IF Truthy(d[2])
        THEN IF IsOk(m) THEN Concat(m[2], DocsHint \o d[2][2]) ELSE m
        ELSE m

\* str(self): the value __str__ returns must be a str.
str(self) ==
    LET r == __str__(self)
    IN  IF IsOk(r) /\ ~IsStr(r[2]) THEN Raise("TypeError") ELSE r

\* HaystackError.__repr__
__repr__(self) == str(self)

\* repr(self): the value __repr__ returns must be a str.
repr(self) ==
    LET r == __repr__(self)
    IN  IF IsOk(r) /\ ~IsStr(r[2]) THEN Raise("TypeError") ELSE r

-----------------------------------------------------------------------------
(* Inputs *)

Messages == {PyNone, PyStr(""), PyStr("missing field 'nodes'")}
DocsLinks == {PyNone, PyStr("https://example.org/help")}
StatusCodes == {PyNone, PyInt(500)}

ValuesOf(name) ==
    CASE name = "message" -> Messages
      [] name = "docs_link" -> DocsLinks
      [] name = "status_code" -> StatusCodes
      [] name = "send_message_in_event" -> BOOLEAN

\* The ways to pass or omit one keyword argument.
ArgChoices(kind, name) ==
    IF name \in Params(kind)
    THEN {EmptyDict} \cup {name :> v : v \in ValuesOf(name)}
    ELSE {EmptyDict}

KwargsFor(kind) ==
    {a @@ b @@ c @@ d :
        a \in ArgChoices(kind, "message"),
        b \in ArgChoices(kind, "docs_link"),
        c \in ArgChoices(kind, "status_code"),
        d \in ArgChoices(kind, "send_message_in_event")}

\* Lower-level exceptions a record can wrap: <<"exc", __dict__>>.
RichCause ==
    <<"exc", ("message" :> PyStr("inner failure"))
                @@ ("docs_link" :> PyStr("https://cause.example/docs"))
                @@ ("status_code" :> PyInt(503))
                @@ ("detail" :> PyStr("timeout"))>>
BareCause == <<"exc", EmptyDict>>
Causes == {RichCause, BareCause}

AttrNames == {"message", "docs_link", "status_code", "detail"}

-----------------------------------------------------------------------------
(* State *)

NoRecord == [kind |-> "NoRecord", dict |-> EmptyDict, cause |-> PyNone]
NoCall == [kind |-> "NoCall", kwargs |-> EmptyDict, raised |-> "none"]
NoResult == [op |-> "none", attr |-> "", out |-> Ok(PyNone), fwd |-> <<>>]

Exists(rec) == rec.kind \in Kinds

Init ==
    /\ telemetry = <<>>
    /\ constructed = <<>>
    /\ call = NoCall
    /\ cur = NoRecord
    /\ last = NoResult

\* kind(**kwargs) at a failure site.  The telemetry call is made first; when
\* it raises, the exception leaves the constructor and no record is obtained.
DoConstruct ==
    \E kind \in Kinds : \E kwargs \in KwargsFor(kind) : \E emit \in EmitOutcomes :
        LET r == New(kind, kwargs, emit)
        IN  /\ telemetry' = telemetry \o r.sent
            /\ constructed' = Append(constructed, kind)
            /\ call' = [kind |-> kind, kwargs |-> kwargs, raised |-> r.raised]
            /\ cur' = IF r.raised = "none"
                      THEN [kind |-> kind, dict |-> r.dict, cause |-> PyNone]
                      ELSE NoRecord
            /\ last' = NoResult

Construct ==
    /\ Len(constructed) < MaxCalls
    /\ DoConstruct

\* raise <cur> from <cause>: sets __cause__ of the record.
AttachCause ==
    /\ Exists(cur)
    /\ cur.cause = PyNone
    /\ \E c \in Causes : cur' = [cur EXCEPT !.cause = c]
    /\ last' = NoResult
    /\ UNCHANGED <<telemetry, constructed, call>>

\* cur.<attr>
ReadAttr ==
    /\ Exists(cur)
    /\ \E attr \in AttrNames :
        LET g == GetAttribute(cur, attr)
        IN  last' = [op |-> "getattr", attr |-> attr, out |-> g.out, fwd |-> g.fwd]
    /\ UNCHANGED <<telemetry, constructed, call, cur>>

\* str(cur)
Render ==
    /\ Exists(cur)
    /\ last' = [op |-> "str", attr |-> "", out |-> str(cur), fwd |-> <<>>]
    /\ UNCHANGED <<telemetry, constructed, call, cur>>

\* repr(cur)
Repr ==
    /\ Exists(cur)
    /\ last' = [op |-> "repr", attr |-> "", out |-> repr(cur), fwd |-> <<>>]
    /\ UNCHANGED <<telemetry, constructed, call, cur>>

Next == Construct \/ AttachCause \/ ReadAttr \/ Render \/ Repr

Spec == Init /\ [][Next]_vars

-----------------------------------------------------------------------------
(* SpecLog: constructions only, for the properties of the telemetry log. *)

LogConstruct ==
    /\ Len(constructed) < MaxLogLen
    /\ DoConstruct

LogNext == LogConstruct

SpecLog == Init /\ [][LogNext]_vars

-----------------------------------------------------------------------------
(* SpecRender: __str__, __repr__ and attribute reads applied to records     *)
(* whose fields are drawn from bounded sets, docs_link included.            *)

RenderMessages == {PyStr("missing field 'nodes'"), PyStr("x")}
RenderLinks == {PyNone, PyStr("https://example.org/help"), PipelineConfigDocs}

RenderDicts ==
    {("docs_link" :> l) : l \in RenderLinks}
        \cup {("docs_link" :> l) @@ ("message" :> m) :
                l \in RenderLinks, m \in RenderMessages}

RenderInit ==
    /\ telemetry = <<>>
    /\ constructed = <<>>
    /\ call = NoCall
    /\ \E k \in Kinds : \E d \in RenderDicts : \E c \in {PyNone} \cup Causes :
        cur = [kind |-> k, dict |-> d, cause |-> c]
    /\ last = NoResult

RenderNext == ReadAttr \/ Render \/ Repr

SpecRender == RenderInit /\ [][RenderNext]_vars

-----------------------------------------------------------------------------
(* Properties *)

LastSent == telemetry[Len(telemetry)]
FlagOmitted == "send_message_in_event" \notin DOMAIN call.kwargs
Supplied(name) == Arg(call.kwargs, name, PyNone)

\* C1: every constructor invocation makes exactly one telemetry call, named
\* "<concrete kind> raised"; after n invocations the log holds n events, the
\* i-th being that of the i-th invocation.
C1_OneEventPerConstruction ==
    /\ Len(telemetry) = Len(constructed)
    /\ \A i \in 1..Len(constructed) :
        telemetry[i].event = constructed[i] \o " raised"

C1_Witness ==
    /\ Len(constructed) >= 2
    /\ constructed[1] = "OpenAIRateLimitError"
    /\ constructed[2] = "PipelineSchemaError"

RedactedKinds ==
    {"DocumentStoreError", "FilterError", "PineconeDocumentStoreError",
     "DuplicateDocumentError", "OpenAIError", "OpenAIRateLimitError",
     "CohereError"}

\* C2: a document-store or remote-API kind constructed without the report
\* flag sends an empty payload, whatever the message.
C2_RedactedPayloadEmpty ==
    (call.kind \in RedactedKinds /\ FlagOmitted) => LastSent.payload = {}

C2_Witness ==
    /\ call.kind = "DuplicateDocumentError"
    /\ Supplied("message") = PyStr("missing field 'nodes'")
    /\ call.raised = "none"
    /\ LastSent.payload = {}

\* C3: a failing telemetry call never leaves the constructor; the caller
\* obtains the record.
C3_EmitFailureIsolated ==
    call.kind \in Kinds => (call.raised = "none" /\ cur.kind = call.kind)

ClaimedDefaultDocs(kind) ==
    CASE kind = "ModelingError" -> PyStr("https://haystack.deepset.ai/")
      [] kind \in {"PipelineError", "PipelineSchemaError"} ->
            PyStr("https://docs.haystack.deepset.ai/docs/pipelines")
      [] kind = "PipelineConfigError" ->
            PyStr("https://docs.haystack.deepset.ai/docs/pipelines#yaml-file-definitions")
      [] OTHER -> PyNone

\* C4: the record's docs_link is the kind's default unless the caller
\* supplied one; PipelineConfigError("missing field 'nodes'") renders with
\* the YAML documentation hint.
C4_DocsLinkDefaulted ==
    Exists(cur) =>
        /\ cur.dict["docs_link"] =
                Arg(call.kwargs, "docs_link", ClaimedDefaultDocs(cur.kind))
        /\ (/\ cur.kind = "PipelineConfigError"
            /\ Supplied("message") = PyStr("missing field 'nodes'")
            /\ "docs_link" \notin DOMAIN call.kwargs
            /\ last.op = "str")
            => last.out = Ok(PyStr("missing field 'nodes'\n\nCheck out the documentation at https://docs.haystack.deepset.ai/docs/pipelines#yaml-file-definitions"))

\* C5: reading an attribute the record lacks fails with AttributeError when
\* there is no cause, returns the cause's value when the cause has it, and
\* fails as the cause's lookup fails when the cause lacks it.
C5_DelegatesToCause ==
    (last.op = "getattr" /\ last.attr \notin DOMAIN cur.dict) =>
        IF cur.cause = PyNone THEN last.out = Raise("AttributeError")
        ELSE IF last.attr \in DOMAIN cur.cause[2]
        THEN last.out = Ok(cur.cause[2][last.attr])
        ELSE last.out = Raise("AttributeError")

\* C6: str and repr of a record without a message return a text.
C6_RenderWithoutMessage ==
    (last.op \in {"str", "repr"} /\ "message" \notin DOMAIN cur.dict) =>
        (IsOk(last.out) /\ IsStr(last.out[2]))

\* C7: str of a record with message m is m when docs_link is None, else m,
\* a blank line and "Check out the documentation at <docs_link>"; repr
\* gives the same text.
C7_RenderFormat ==
    (last.op \in {"str", "repr"} /\ "message" \in DOMAIN cur.dict) =>
        last.out =
            Ok(IF cur.dict["docs_link"] = PyNone THEN cur.dict["message"]
               ELSE PyStr(cur.dict["message"][2] \o "\n\n"
                            \o "Check out the documentation at "
                            \o cur.dict["docs_link"][2]))

C7_Witness ==
    /\ last.op = "repr"
    /\ "message" \in DOMAIN cur.dict
    /\ cur.dict["docs_link"] = PipelineConfigDocs
    /\ cur.cause = RichCause

ReportingKinds ==
    {"HaystackError", "ModelingError", "PipelineError", "PipelineSchemaError",
     "PipelineConfigError", "NodeError", "AudioNodeError", "ImageToTextError"}

\* C8: a kind that reports by default, constructed without the report flag,
\* sends the payload {message: <supplied message>}, None and "" included.
C8_ReportedPayload ==
    (call.kind \in ReportingKinds /\ FlagOmitted) =>
        LastSent.payload = {<<"message", Supplied("message")>>}

C8_Witness ==
    /\ call.kind = "AudioNodeError"
    /\ "message" \in DOMAIN call.kwargs
    /\ call.kwargs["message"] = PyStr("")
    /\ LastSent.payload = {<<"message", PyStr("")>>}

\* C9: an OpenAIRateLimitError record holds status_code 429 and a read of
\* status_code returns 429, whatever the arguments and the cause.
C9_RateLimitCode ==
    cur.kind = "OpenAIRateLimitError" =>
        /\ "status_code" \in DOMAIN cur.dict
        /\ cur.dict["status_code"] = PyInt(429)
        /\ (last.op = "getattr" /\ last.attr = "status_code")
            => last.out = Ok(PyInt(429))

C9_Witness ==
    /\ cur.kind = "OpenAIRateLimitError"
    /\ cur.cause = RichCause
    /\ "send_message_in_event" \in DOMAIN call.kwargs
    /\ last.op = "getattr"
    /\ last.attr = "status_code"

====
